---- MODULE Spec2Model ----
(***************************************************************************)
(* State-machine model of the AddModelForm React component                 *)
(* (gui/src/forms/AddModelForm.tsx): the two-step connect / selectModel    *)
(* flow, the localStorage credential store, the discovery fetch and the    *)
(* success-indicator timer.                                                *)
(*                                                                         *)
(* Conventions.  A JavaScript value that may be null is a sequence of      *)
(* length at most one (<<>> is null).  A string that the code inspects     *)
(* character-wise (the endpoint) is a sequence of tokens; messages are     *)
(* sequences of tokens too, so that a template literal is a concatenation. *)
(* A render closure is modelled where the code depends on it: an async     *)
(* call of fetchModelsWithCredentials keeps the useStoredCredentials value *)
(* of the render that started it.                                          *)
(***************************************************************************)
EXTENDS Integers, Sequences, FiniteSets, TLC

\* ------------------------------------------------------------------ bounds
MaxModels == 2      \* longest data array a discovery response carries
MaxAttempts == 2    \* discovery fetches issued in one session

\* ------------------------------------------------------------ input domains
\* "u" is a remote endpoint; the last one is the endpoint of the default
\* configuration, http://localhost:11434
Bases == {<<>>, <<"u">>, <<"u", "/">>, <<"http://localhost:", "11434">>}
Keys == {"", "k1", "k2"}
Statuses == {200, 401, 500}
RawModels == {[id |-> "m1", object |-> "model", created |-> 1, owned_by |-> "a"],
              [id |-> "m1", object |-> "model", created |-> 2, owned_by |-> "b"],
              [id |-> "m2", object |-> "list", created |-> 1, owned_by |-> "a"]}

SeqsUpTo(S, n) == UNION {[1..k -> S] : k \in 0..n}

\* ------------------------------------------------------------------ messages
NoError == <<>>
MissingInputMsg == <<"Please enter both API base URL and API key">>
StoredInvalidMsg == <<"Stored credentials are invalid. Please re-enter your details.">>
InvalidFormatMsg == <<"Invalid response format: expected data array">>
ConnectFallbackMsg == <<"Failed to connect to the API">>
NetworkErrorMsg == <<"TypeError: Failed to fetch">>
JsonErrorMsg == <<"SyntaxError: Unexpected token">>
PropertyOfNullMsg == <<"TypeError: Cannot read properties of null">>

StatusText(status) ==
    CASE status = 200 -> "OK"
      [] status = 401 -> "Unauthorized"
      [] status = 500 -> "Internal Server Error"
      [] OTHER -> ""

\* `Failed to fetch models: ${response.status} ${response.statusText}`
HttpErrorMsg(status) == <<"Failed to fetch models:", status, StatusText(status)>>

\* response.ok
ResponseOk(status) == status >= 200 /\ status <= 299

\* (mutant of CatchMessage: the thrown message is dropped)
CatchMessageGeneric(thrown) == ConnectFallbackMsg

\* error instanceof Error ? error.message : "Failed to connect to the API"
CatchMessage(thrown) == IF thrown.isError THEN thrown.message ELSE ConnectFallbackMsg

ErrorOf(msg) == [isError |-> TRUE, message |-> msg]

\* --------------------------------------------------------- credential store
\* JSON.stringify({ apiBase, apiKey })
JsonStringify(apiBase, apiKey) ==
    [kind |-> "credentialsJson", apiBase |-> apiBase, apiKey |-> apiKey]

Garbage == [kind |-> "garbage", apiBase |-> <<>>, apiKey |-> ""]

\* JSON.parse: the parsed object, or <<>> when the text does not parse
JsonParse(text) ==
    IF text.kind = "credentialsJson"
    THEN <<[apiBase |-> text.apiBase, apiKey |-> text.apiKey]>>
    ELSE <<>>

\* getStoredCredentials: null when the entry is absent or does not parse
getStoredCredentials(ls) == IF ls = <<>> THEN <<>> ELSE JsonParse(ls[1])

\* (mutant of storeCredentials: only the endpoint of the stored pair is updated)
storeCredentialsEndpointOnly(ls, apiBase, apiKey) ==
    <<JsonStringify(apiBase, IF ls # <<>> THEN ls[1].apiKey ELSE "")>>

\* storeCredentials: localStorage.setItem(key, JSON.stringify(credentials))
storeCredentials(ls, apiBase, apiKey) == <<JsonStringify(apiBase, apiKey)>>

\* clearStoredCredentials: localStorage.removeItem(key)
clearStoredCredentials(ls) == <<>>

\* The three helpers as calls that may meet a failing storage.  A call leaves
\* the storage, returns a value, and either returns normally or lets an
\* exception out (raised); `throws` says whether the localStorage method the
\* helper calls throws (access denied, quota exceeded).
Outcome(ls, value, raised) == [ls |-> ls, value |-> value, raised |-> raised]

\* (mutant of getStoredCredentialsCall: no try / catch around getItem)
getStoredCredentialsCallUncaught(ls, throws) ==
    IF throws
    THEN Outcome(ls, <<>>, TRUE)
    ELSE Outcome(ls, getStoredCredentials(ls), FALSE)

\* try { getItem; JSON.parse } catch { console.error; return null }
getStoredCredentialsCall(ls, throws) ==
    IF throws
    THEN Outcome(ls, <<>>, FALSE)
    ELSE Outcome(ls, getStoredCredentials(ls), FALSE)

\* try { setItem(JSON.stringify(...)) } catch { console.error }
storeCredentialsCall(ls, apiBase, apiKey, throws) ==
    IF throws
    THEN Outcome(ls, <<>>, FALSE)
    ELSE Outcome(storeCredentials(ls, apiBase, apiKey), <<>>, FALSE)

\* try { removeItem } catch { console.error }
clearStoredCredentialsCall(ls, throws) ==
    IF throws
    THEN Outcome(ls, <<>>, FALSE)
    ELSE Outcome(clearStoredCredentials(ls), <<>>, FALSE)

\* ------------------------------------------------------------------- helpers
\* apiBase.endsWith("/") ? `${apiBase}models` : `${apiBase}/models`
ModelsUrl(apiBase) ==
    IF Len(apiBase) > 0 /\ apiBase[Len(apiBase)] = "/"
    THEN apiBase \o <<"models">>
    ELSE apiBase \o <<"/", "models">>

\* (mutant of ToModel: the title is taken from another field)
ToModelTitleFromOwner(raw) ==
    [id |-> raw.id, title |-> raw.owned_by, object |-> raw.object,
     created |-> raw.created, owned_by |-> raw.owned_by]

\* data.data.map(model => ({ id, title: id, object, created, owned_by }))
ToModel(raw) ==
    [id |-> raw.id, title |-> raw.id, object |-> raw.object,
     created |-> raw.created, owned_by |-> raw.owned_by]

MapModels(data) == [i \in 1..Len(data) |-> ToModel(data[i])]

\* availableModels.find(m => m.id === val.id || m.title === val.title)
Matches(model, val) == model.id = val.id \/ model.title = val.title

\* (mutant of FindMatch: the last match instead of the first)
FindMatchLast(models, val) ==
    LET hits == {i \in 1..Len(models) : Matches(models[i], val)}
    IN IF hits = {} THEN <<>>
       ELSE <<models[CHOOSE i \in hits : \A j \in hits : i >= j]>>

FindMatch(models, val) ==
    LET hits == {i \in 1..Len(models) : Matches(models[i], val)}
    IN IF hits = {} THEN <<>>
       ELSE <<models[CHOOSE i \in hits : \A j \in hits : i <= j]>>

\* ------------------------------------------------------------ input domains
\* what the user can pick in the listbox: a descriptor with an id and a title
Vals == [id : {"m1", "m2", "zz"}, title : {"m1", "m2", "zz"}]

\* the body of an HTTP response: not JSON; the JSON value null; an object
\* without data; an object whose data is not an array; an object whose data
\* array holds a null; an object whose data array holds objects
Bodies == {"unparsable", "jsonNull", "noData", "dataNotArray", "dataArrayWithNull",
           "dataArray"}

\* what a discovery fetch can come back with: a rejection of fetch(), or an
\* HTTP response with a status and a body
Responses ==
    {[kind |-> "networkError", status |-> 0, body |-> "unparsable", data |-> <<>>]}
    \cup {[kind |-> "http", status |-> s, body |-> "unparsable", data |-> <<>>] :
             s \in {s \in Statuses : ~ResponseOk(s)}}
    \cup {[kind |-> "http", status |-> s, body |-> b, data |-> <<>>] :
             s \in {s \in Statuses : ResponseOk(s)}, b \in Bodies \ {"dataArray"}}
    \cup {[kind |-> "http", status |-> s, body |-> "dataArray", data |-> d] :
             s \in {s \in Statuses : ResponseOk(s)}, d \in SeqsUpTo(RawModels, MaxModels)}

\* --------------------------------------------------------------------- state
VARIABLES
    phase,                \* "rendered" (effects not yet run), "mounted", "unmounted"
    step,                 \* useState "connect" | "selectModel"
    isConnecting,         \* useState boolean
    availableModels,      \* useState Model[]
    selectedCustomModel,  \* useState Model | null
    connectionError,      \* useState string | null
    showSuccessMessage,   \* useState boolean
    useStoredCredentials, \* useState boolean
    successTimeoutRef,    \* useRef: 0 is null, otherwise a timer handle
    formApiBase,          \* react-hook-form value "apiBase"
    formApiKey,           \* react-hook-form value "apiKey"
    localStorage,         \* the entry under "neocode-api-credentials"
    inflight,             \* suspended calls of fetchModelsWithCredentials
    timers,               \* handles of the pending setTimeout callbacks
    attempts,             \* discovery fetches issued so far
    outbox,               \* ideMessenger.post / dispatch / onDone calls of the last
                          \* handler run, in order (history)
    autoReconnect,        \* the mount effect issued a fetch (history)
    validated,            \* the endpoint and key of the fetch that produced the
                          \* catalog, <<>> while there is none (history)
    last                  \* the operation that produced this state (history)

vars == <<phase, step, isConnecting, availableModels, selectedCustomModel,
          connectionError, showSuccessMessage, useStoredCredentials,
          successTimeoutRef, formApiBase, formApiKey, localStorage, inflight,
          timers, attempts, outbox, autoReconnect, validated,
          last>>

uiState == <<step, isConnecting, availableModels, selectedCustomModel,
             connectionError, showSuccessMessage, useStoredCredentials>>

NoResponse == [kind |-> "none", status |-> 0, body |-> "unparsable", data |-> <<>>]
NoVal == [id |-> "", title |-> ""]

\* history: the operation, the caller of the completed attempt, the response it
\* got, the listbox value, and the number of localStorage.setItem calls made
Did(op, origin, resp, val, writes) ==
    [op |-> op, origin |-> origin, resp |-> resp, val |-> val, writes |-> writes]

\* a state setter of an unmounted component does nothing
Live == phase = "mounted"

Init ==
    /\ phase = "rendered"
    /\ step = "connect"
    /\ isConnecting = FALSE
    /\ availableModels = <<>>
    /\ selectedCustomModel = <<>>
    /\ connectionError = NoError
    /\ showSuccessMessage = FALSE
    /\ useStoredCredentials = FALSE
    /\ successTimeoutRef = 0
    /\ formApiBase = <<>>
    /\ formApiKey = ""
    /\ localStorage \in {<<>>, <<Garbage>>}
                        \cup {<<JsonStringify(b, k)>> : b \in Bases, k \in Keys}
    /\ inflight = {}
    /\ timers = {}
    /\ attempts = 0
    /\ outbox = <<>>
    /\ autoReconnect = FALSE
    /\ validated = <<>>
    /\ last = Did("init", "none", NoResponse, NoVal, 0)

\* -------------------------------------------------- fetchModelsWithCredentials
\* The call up to `await fetch(...)`.  closureUsc is the useStoredCredentials
\* of the render whose fetchModelsWithCredentials is called; origin records
\* who called (history only).  The handle a later setTimeout of this call
\* returns is the call's id: fresh, as every call arms at most one timer.
Attempt(apiBase, apiKey, closureUsc, origin) ==
    [id |-> attempts + 1, apiBase |-> apiBase, apiKey |-> apiKey,
     usc |-> closureUsc, origin |-> origin, url |-> ModelsUrl(apiBase),
     auth |-> <<"Bearer", apiKey>>]

\* (mutant of StartFetch: the error of the previous attempt is not reset)
StartFetchKeepsError(apiBase, apiKey, closureUsc, origin) ==
    IF apiBase = <<>> \/ apiKey = ""
    THEN /\ connectionError' = MissingInputMsg
         /\ UNCHANGED <<isConnecting, inflight, attempts>>
    ELSE /\ isConnecting' = TRUE
         /\ UNCHANGED connectionError
         /\ inflight' = inflight \cup {Attempt(apiBase, apiKey, closureUsc, origin)}
         /\ attempts' = attempts + 1

StartFetch(apiBase, apiKey, closureUsc, origin) ==
    IF apiBase = <<>> \/ apiKey = ""
    THEN /\ connectionError' = MissingInputMsg
         /\ UNCHANGED <<isConnecting, inflight, attempts>>
    ELSE /\ isConnecting' = TRUE
         /\ connectionError' = NoError
         /\ inflight' = inflight \cup {Attempt(apiBase, apiKey, closureUsc, origin)}
         /\ attempts' = attempts + 1

\* ---------------------------------------------------------------- useEffects
\* The mount effects run once, in the closure of the first render.
\* (mutant of MountEffectDue: no dependency array, the effect runs after
\* every render)
MountEffectAfterEveryRender == phase # "unmounted"

\* useEffect(..., []): due after the first render only
MountEffectDue == phase = "rendered"

Mount ==
    /\ MountEffectDue
    /\ attempts < MaxAttempts
    /\ phase' = "mounted"
    /\ LET storedCreds == getStoredCredentials(localStorage)
       IN IF storedCreds # <<>> /\ storedCreds[1].apiBase # <<>>
                                /\ storedCreds[1].apiKey # ""
          THEN /\ formApiBase' = storedCreds[1].apiBase
               /\ formApiKey' = storedCreds[1].apiKey
               /\ useStoredCredentials' = TRUE
               /\ StartFetch(storedCreds[1].apiBase, storedCreds[1].apiKey,
                             useStoredCredentials, "stored")
               /\ autoReconnect' = TRUE
          ELSE UNCHANGED <<formApiBase, formApiKey, useStoredCredentials,
                           isConnecting, connectionError, inflight, attempts,
                           autoReconnect>>
    /\ last' = Did("mount", "none", NoResponse, NoVal, 0)
    /\ outbox' = <<>>
    /\ UNCHANGED <<step, availableModels, selectedCustomModel, showSuccessMessage,
                   successTimeoutRef, localStorage, timers,
                   validated>>

\* The cleanup of the second effect.
Unmount ==
    /\ phase = "mounted"
    /\ phase' = "unmounted"
    /\ timers' = IF successTimeoutRef # 0 THEN timers \ {successTimeoutRef} ELSE timers
    /\ last' = Did("unmount", "none", NoResponse, NoVal, 0)
    /\ outbox' = <<>>
    /\ UNCHANGED <<uiState, successTimeoutRef, formApiBase, formApiKey,
                   localStorage, inflight, attempts, autoReconnect,
                   validated>>

\* The code after `await fetch(...)`, for the suspended call f and the
\* response r.  `await response.json()` suspends once more, but nothing runs
\* between the two awaits on the path that reaches it, so one step covers both.

\* if (useStoredCredentials) in the !response.ok branch (closure value)
InvalidatesStored(f) == f.usc

\* if (!useStoredCredentials) around setShowSuccessMessage / setTimeout
ShowsSuccess(f) == ~f.usc

\* if (!useStoredCredentials) around storeCredentials
StoresOnSuccess(f) == ~f.usc

\* (mutant of Thrown: no finally block)
ThrownStaysConnecting(error) ==
    /\ connectionError' = IF Live THEN CatchMessage(error) ELSE connectionError
    /\ UNCHANGED <<isConnecting, step, availableModels, selectedCustomModel,
                   showSuccessMessage, useStoredCredentials, successTimeoutRef,
                   localStorage, timers>>

\* catch (error) { setConnectionError(...) } finally { setIsConnecting(false) }
Thrown(error) ==
    /\ connectionError' = IF Live THEN CatchMessage(error) ELSE connectionError
    /\ isConnecting' = IF Live THEN FALSE ELSE isConnecting
    /\ UNCHANGED <<step, availableModels, selectedCustomModel, showSuccessMessage,
                   useStoredCredentials, successTimeoutRef, localStorage, timers>>

\* the stored-credentials branch of !response.ok, then finally
Invalidate ==
    /\ localStorage' = clearStoredCredentials(localStorage)
    /\ useStoredCredentials' = IF Live THEN FALSE ELSE useStoredCredentials
    /\ step' = IF Live THEN "connect" ELSE step
    /\ connectionError' = IF Live THEN StoredInvalidMsg ELSE connectionError
    /\ isConnecting' = IF Live THEN FALSE ELSE isConnecting
    /\ UNCHANGED <<availableModels, selectedCustomModel, showSuccessMessage,
                   successTimeoutRef, timers>>

\* the data.data branch, then finally
Succeed(f, models) ==
    /\ availableModels' = IF Live THEN models ELSE availableModels
    /\ step' = IF Live THEN "selectModel" ELSE step
    /\ IF ShowsSuccess(f)
       THEN /\ showSuccessMessage' = IF Live THEN TRUE ELSE showSuccessMessage
            /\ timers' = (IF successTimeoutRef # 0
                          THEN timers \ {successTimeoutRef} ELSE timers)
                         \cup {f.id}
            /\ successTimeoutRef' = f.id
       ELSE UNCHANGED <<showSuccessMessage, timers, successTimeoutRef>>
    /\ IF StoresOnSuccess(f)
       THEN localStorage' = storeCredentials(localStorage, f.apiBase, f.apiKey)
       ELSE UNCHANGED localStorage
    /\ selectedCustomModel' = IF Live /\ Len(models) > 0
                              THEN <<models[1]>> ELSE selectedCustomModel
    /\ isConnecting' = IF Live THEN FALSE ELSE isConnecting
    /\ UNCHANGED <<connectionError, useStoredCredentials>>

CompleteFetch(f, r) ==
    /\ f \in inflight
    /\ inflight' = inflight \ {f}
    /\ last' = Did("complete", f.origin, r, NoVal,
                   IF ResponseOk(r.status) /\ r.body = "dataArray" /\ StoresOnSuccess(f)
                   THEN 1 ELSE 0)
    /\ outbox' = <<>>
    /\ IF r.kind = "networkError"
       THEN Thrown(ErrorOf(NetworkErrorMsg))
       ELSE IF ~ResponseOk(r.status)
       THEN IF InvalidatesStored(f)
            THEN Invalidate
            ELSE Thrown(ErrorOf(HttpErrorMsg(r.status)))
       ELSE IF r.body = "unparsable"
       THEN Thrown(ErrorOf(JsonErrorMsg))
       ELSE IF r.body \in {"jsonNull", "dataArrayWithNull"}
       THEN Thrown(ErrorOf(PropertyOfNullMsg))
       ELSE IF r.body = "dataArray"
       THEN Succeed(f, MapModels(r.data))
       ELSE Thrown(ErrorOf(InvalidFormatMsg))
    /\ validated' = IF Live /\ r.kind = "http" /\ ResponseOk(r.status)
                          /\ r.body = "dataArray"
                     THEN <<[apiBase |-> f.apiBase, apiKey |-> f.apiKey]>>
                     ELSE validated
    /\ UNCHANGED <<phase, formApiBase, formApiKey, attempts, autoReconnect>>

\* the setTimeout callback
TimerFire(h) ==
    /\ h \in timers
    /\ timers' = timers \ {h}
    /\ showSuccessMessage' = IF Live THEN FALSE ELSE showSuccessMessage
    /\ successTimeoutRef' = 0
    /\ last' = Did("timer", "none", NoResponse, NoVal, 0)
    /\ outbox' = <<>>
    /\ UNCHANGED <<phase, step, isConnecting, availableModels, selectedCustomModel,
                   connectionError, useStoredCredentials, formApiBase, formApiKey,
                   localStorage, inflight, attempts, autoReconnect,
                   validated>>

\* ---------------------------------------------------------------- user input
\* (mutant of isConnectDisabled: the button stays enabled while connecting)
isConnectDisabledWhileIdle == formApiBase = <<>> \/ formApiKey = ""

\* (mutant of isConnectDisabled: the key is not looked at)
isConnectDisabledIgnoresKey == formApiBase = <<>> \/ isConnecting

isConnectDisabled == formApiBase = <<>> \/ formApiKey = "" \/ isConnecting

isSubmitDisabled == selectedCustomModel = <<>>

\* the inputs of the connect step (rendered only while step = "connect")
EditApiBase(v) ==
    /\ Live /\ step = "connect"
    /\ formApiBase' = v
    /\ last' = Did("editApiBase", "none", NoResponse, NoVal, 0)
    /\ outbox' = <<>>
    /\ UNCHANGED <<phase, uiState, successTimeoutRef, formApiKey, localStorage,
                   inflight, timers, attempts, autoReconnect,
                   validated>>

EditApiKey(v) ==
    /\ Live /\ step = "connect"
    /\ formApiKey' = v
    /\ last' = Did("editApiKey", "none", NoResponse, NoVal, 0)
    /\ outbox' = <<>>
    /\ UNCHANGED <<phase, uiState, successTimeoutRef, formApiBase, localStorage,
                   inflight, timers, attempts, autoReconnect,
                   validated>>

\* the Clear button, rendered in the connect step while getStoredCredentials()
\* returns an object
ClearClick ==
    /\ Live /\ step = "connect"
    /\ getStoredCredentials(localStorage) # <<>>
    /\ localStorage' = clearStoredCredentials(localStorage)
    /\ formApiBase' = <<>>
    /\ formApiKey' = ""
    /\ last' = Did("clear", "none", NoResponse, NoVal, 0)
    /\ outbox' = <<>>
    /\ UNCHANGED <<phase, uiState, successTimeoutRef, inflight, timers,
                   attempts, autoReconnect,
                   validated>>

\* fetchModels: the body runs in the closure of the render that was clicked
fetchModels ==
    /\ useStoredCredentials' = FALSE
    /\ StartFetch(formApiBase, formApiKey, useStoredCredentials, "manual")

\* onSubmit while step = "connect"; the submit button is disabled while
\* isConnectDisabled()
OnSubmitConnect ==
    /\ Live /\ step = "connect"
    /\ ~isConnectDisabled
    /\ attempts < MaxAttempts
    /\ fetchModels
    /\ last' = Did("connect", "none", NoResponse, NoVal, 0)
    /\ outbox' = <<>>
    /\ UNCHANGED <<phase, step, availableModels, selectedCustomModel,
                   showSuccessMessage, successTimeoutRef, formApiBase, formApiKey,
                   localStorage, timers, autoReconnect,
                   validated>>

\* a click on the submit button of the connect step while it is disabled, or
\* Enter in an input then: the browser dispatches no submit event
OnSubmitDisabled ==
    /\ Live /\ step = "connect"
    /\ isConnectDisabled
    /\ last' = Did("connectDisabled", "none", NoResponse, NoVal, 0)
    /\ outbox' = <<>>
    /\ UNCHANGED <<phase, uiState, successTimeoutRef, formApiBase, formApiKey,
                   localStorage, inflight, timers, attempts, autoReconnect,
                   validated>>

\* (mutant of SubmitEvents: completion is signalled before the profile is opened)
SubmitEventsDoneEarly(selected, apiKey, apiBase) ==
    LET model == [provider |-> "openai", title |-> selected.title,
                  model |-> selected.id, apiKey |-> apiKey, apiBase |-> apiBase,
                  underlyingProviderName |-> "custom"]
    IN << [type |-> "config/addModel", model |-> model],
          [type |-> "onDone"],
          [type |-> "config/openProfile", profileId |-> "local"],
          [type |-> "updateSelectedModelByRole", role |-> "chat",
           modelTitle |-> model.title] >>

\* onSubmit while step = "selectModel": the notifications, in program order
SubmitEvents(selected, apiKey, apiBase) ==
    LET model == [provider |-> "openai", title |-> selected.title,
                  model |-> selected.id, apiKey |-> apiKey, apiBase |-> apiBase,
                  underlyingProviderName |-> "custom"]
    IN << [type |-> "config/addModel", model |-> model],
          [type |-> "config/openProfile", profileId |-> "local"],
          [type |-> "updateSelectedModelByRole", role |-> "chat",
           modelTitle |-> model.title],
          [type |-> "onDone"] >>

\* (the submit button is disabled while isSubmitDisabled(); the handler makes the
\* same test itself, and that is the test modelled)
OnSubmitFinal ==
    /\ Live /\ step = "selectModel"
    /\ outbox' = IF selectedCustomModel = <<>>
                 THEN <<>>
                 ELSE SubmitEvents(selectedCustomModel[1], formApiKey, formApiBase)
    /\ last' = Did("submit", "none", NoResponse, NoVal, 0)
    /\ UNCHANGED <<phase, uiState, successTimeoutRef, formApiBase, formApiKey,
                   localStorage, inflight, timers, attempts, autoReconnect,
                   validated>>

\* the "config file" link, rendered while step = "selectModel"
OpenConfigFile ==
    /\ Live /\ step = "selectModel"
    /\ outbox' = << [type |-> "config/openProfile", profileId |-> "undefined"] >>
    /\ last' = Did("openConfigFile", "none", NoResponse, NoVal, 0)
    /\ UNCHANGED <<phase, uiState, successTimeoutRef, formApiBase, formApiKey,
                   localStorage, inflight, timers, attempts, autoReconnect,
                   validated>>

\* setSelectedProvider of the listbox
SelectModel(val) ==
    /\ Live /\ step = "selectModel"
    /\ LET match == FindMatch(availableModels, val)
       IN selectedCustomModel' = IF match # <<>> THEN match ELSE selectedCustomModel
    /\ last' = Did("select", "none", NoResponse, val, 0)
    /\ outbox' = <<>>
    /\ UNCHANGED <<phase, step, isConnecting, availableModels, connectionError,
                   showSuccessMessage, useStoredCredentials, successTimeoutRef,
                   formApiBase, formApiKey, localStorage, inflight, timers,
                   attempts, autoReconnect,
                   validated>>

\* (mutant of CancelSuccessTimer: the pending timer is left alone)
CancelSuccessTimerForgets == UNCHANGED <<timers, successTimeoutRef>>

\* if (successTimeoutRef.current) { clearTimeout(...); ...current = null }
CancelSuccessTimer ==
    /\ timers' = IF successTimeoutRef # 0 THEN timers \ {successTimeoutRef} ELSE timers
    /\ successTimeoutRef' = 0

\* (mutant of RepopulateForm: the inputs keep what the user last typed)
RepopulateFormSkips == UNCHANGED <<formApiBase, formApiKey>>

\* const storedCreds = getStoredCredentials(); if (storedCreds) { setValue... }
RepopulateForm ==
    LET storedCreds == getStoredCredentials(localStorage)
    IN IF storedCreds # <<>>
       THEN /\ formApiBase' = storedCreds[1].apiBase
            /\ formApiKey' = storedCreds[1].apiKey
       ELSE UNCHANGED <<formApiBase, formApiKey>>

\* the Back to Connection button, rendered while step = "selectModel"
goBackToConnect ==
    /\ Live /\ step = "selectModel"
    /\ CancelSuccessTimer
    /\ step' = "connect"
    /\ availableModels' = <<>>
    /\ selectedCustomModel' = <<>>
    /\ connectionError' = NoError
    /\ showSuccessMessage' = FALSE
    /\ useStoredCredentials' = FALSE
    /\ RepopulateForm
    /\ validated' = <<>>
    /\ last' = Did("back", "none", NoResponse, NoVal, 0)
    /\ outbox' = <<>>
    /\ UNCHANGED <<phase, isConnecting, localStorage, inflight,
                   attempts, autoReconnect>>

\* ------------------------------------------------------------- specification
Next ==
    \/ Mount
    \/ Unmount
    \/ \E f \in inflight, r \in Responses : CompleteFetch(f, r)
    \/ \E h \in timers : TimerFire(h)
    \/ \E v \in Bases : EditApiBase(v)
    \/ \E v \in Keys : EditApiKey(v)
    \/ ClearClick
    \/ OnSubmitConnect
    \/ OnSubmitFinal
    \/ OpenConfigFile
    \/ \E val \in Vals : SelectModel(val)
    \/ goBackToConnect
    \/ OnSubmitDisabled

Spec == Init /\ [][Next]_vars

\* the same program started on a store that is empty or holds a pair with a
\* non-empty endpoint and a non-empty key
WellFormed(ls) ==
    \/ ls = <<>>
    \/ /\ ls[1].kind = "credentialsJson"
       /\ ls[1].apiBase # <<>>
       /\ ls[1].apiKey # ""

InitWellFormed == Init /\ WellFormed(localStorage)

SpecWellFormed == InitWellFormed /\ [][Next]_vars

\* --------------------------------------------- the credential store on its own
\* The three helpers called in any order on any stored text, each call with
\* or without a storage failure.  `last` records the call: the helper, whether
\* the storage threw, the credentials passed, and what the call left.
StoreCall(op, throws, arg, out) ==
    /\ localStorage' = out.ls
    /\ last' = [op |-> op, throws |-> throws, arg |-> arg, out |-> out]
    /\ UNCHANGED <<phase, uiState, successTimeoutRef, formApiBase, formApiKey,
                   inflight, timers, attempts, outbox, autoReconnect, validated>>

LoadCall(throws) ==
    StoreCall("load", throws, <<>>, getStoredCredentialsCall(localStorage, throws))

SaveCall(apiBase, apiKey, throws) ==
    StoreCall("save", throws, <<[apiBase |-> apiBase, apiKey |-> apiKey]>>,
              storeCredentialsCall(localStorage, apiBase, apiKey, throws))

ClearCall(throws) ==
    StoreCall("clear", throws, <<>>, clearStoredCredentialsCall(localStorage, throws))

NextStore ==
    \/ \E t \in BOOLEAN : LoadCall(t)
    \/ \E b \in Bases, k \in Keys, t \in BOOLEAN : SaveCall(b, k, t)
    \/ \E t \in BOOLEAN : ClearCall(t)

SpecStore == Init /\ [][NextStore]_vars

\* --------------------------------------------------------------------- claims
\* what the last step was, read off the history variable
Completed == last.op = "complete"
GotHttpError == last.resp.kind = "http" /\ ~ResponseOk(last.resp.status)
GotHttpOk == last.resp.kind = "http" /\ ResponseOk(last.resp.status)
GotCatalog == GotHttpOk /\ last.resp.body = "dataArray"
GotMalformed == GotHttpOk /\ last.resp.body \in {"noData", "dataNotArray"}

\* the same, of the step being taken (for action formulas)
CompletedNext == last'.op = "complete"
GotHttpErrorNext == last'.resp.kind = "http" /\ ~ResponseOk(last'.resp.status)
GotCatalogNext ==
    /\ last'.resp.kind = "http" /\ ResponseOk(last'.resp.status)
    /\ last'.resp.body = "dataArray"
GotMalformedNext ==
    /\ last'.resp.kind = "http" /\ ResponseOk(last'.resp.status)
    /\ last'.resp.body \in {"noData", "dataNotArray"}

\* C1: when the auto-reconnect fetch issued at mount from stored credentials
\* comes back with an HTTP non-success status, the live session is in the
\* connect step with the "stored credentials invalid" message and the
\* credential store is empty.
C1_StoredRejectionInvalidates ==
    (Live /\ Completed /\ last.origin = "stored" /\ GotHttpError)
        => /\ step = "connect"
           /\ connectionError = StoredInvalidMsg
           /\ localStorage = <<>>

\* C2: a user-initiated connect that comes back with an HTTP non-success status
\* leaves the live session with the HTTP status message as its error and
\* leaves the credential store as it was before the response.
C2_ManualRejectionKeepsStore ==
    [][(phase' = "mounted" /\ CompletedNext /\ last'.origin = "manual"
            /\ GotHttpErrorNext)
        => /\ step' = "connect"
           /\ connectionError' = HttpErrorMsg(last'.resp.status)
           /\ localStorage' = localStorage]_vars

\* C3: a user-initiated connect that comes back with HTTP success and a data
\* array leaves the credential store holding exactly the endpoint and key of
\* that connect, written by one setItem call, with the success indicator shown.
C3_ManualSuccessPersists ==
    [][(phase' = "mounted" /\ CompletedNext /\ last'.origin = "manual"
            /\ GotCatalogNext)
        => /\ \A f \in inflight \ inflight' :
                 getStoredCredentials(localStorage')
                     = <<[apiBase |-> f.apiBase, apiKey |-> f.apiKey]>>
           /\ last'.writes = 1
           /\ showSuccessMessage']_vars

\* C4: when the auto-reconnect fetch issued at mount succeeds, the success
\* indicator is not shown, no timer is pending and setItem is not called.
C4_AutoReconnectIsSilent ==
    (Live /\ Completed /\ last.origin = "stored" /\ GotCatalog)
        => /\ ~showSuccessMessage
           /\ timers = {}
           /\ last.writes = 0

\* C5: after a manual connect succeeds in a session that made no auto-reconnect
\* (a first-time connect), the success indicator is shown at once and its
\* timer is pending; when the timer fires in a live session the indicator is
\* hidden and the handle is empty; after goBackToConnect the indicator is
\* hidden and no timer is pending, and none is pending for as long as the live
\* session stays in the connect step.
C5_SuccessIndicatorLifecycle ==
    /\ (Live /\ Completed /\ last.origin = "manual" /\ GotCatalog /\ ~autoReconnect)
          => /\ showSuccessMessage
             /\ successTimeoutRef # 0
             /\ timers = {successTimeoutRef}
    /\ (Live /\ last.op = "timer")
          => /\ ~showSuccessMessage
             /\ successTimeoutRef = 0
             /\ timers = {}
    /\ last.op = "back"
          => /\ ~showSuccessMessage
             /\ successTimeoutRef = 0
             /\ timers = {}
    /\ (Live /\ step = "connect") => (timers = {} /\ ~showSuccessMessage)

C5_Witness ==
    /\ Live /\ Completed /\ last.origin = "manual" /\ GotCatalog /\ ~autoReconnect
    /\ showSuccessMessage
    /\ timers # {}

\* C6: at most one success-indicator timer is pending, and one is pending only
\* while the session is in the selectModel step and the component is mounted.
C6_TimerOwnedByConnected ==
    /\ Cardinality(timers) <= 1
    /\ timers # {} => (step = "selectModel" /\ phase = "mounted")

\* C7: a manual connect whose HTTP-success payload is an object with no data
\* field, or with a data field that is not an array, leaves the live session
\* in the connect step with the "expected data array" error, not connecting,
\* with the catalog, the selection and the credential store as they were.
\* (Every other HTTP-success body that is not an array of objects also leaves
\* an error and installs nothing.)
C7_MalformedCatalogFails ==
    [][(phase' = "mounted" /\ CompletedNext /\ last'.origin = "manual"
            /\ last'.resp.kind = "http" /\ ResponseOk(last'.resp.status)
            /\ last'.resp.body # "dataArray")
        => /\ step' = "connect"
           /\ GotMalformedNext => connectionError' = InvalidFormatMsg
           /\ connectionError' # NoError
           /\ ~isConnecting'
           /\ availableModels' = availableModels
           /\ selectedCustomModel' = selectedCustomModel
           /\ localStorage' = localStorage]_vars

C7_Witness ==
    /\ Live /\ Completed /\ last.origin = "manual" /\ GotMalformed
    /\ connectionError = InvalidFormatMsg
    /\ step = "connect"
    /\ localStorage # <<>>

\* C8: on HTTP success with a data array, the live session is in the
\* selectModel step with a catalog of the same length and order as the array,
\* each entry with id and title equal to the element's id and object, created
\* and owned_by copied; the selection is the first entry, or none when the
\* catalog is empty.
C8_CatalogMirrorsPayload ==
    (Live /\ Completed /\ GotCatalog)
        => LET data == last.resp.data
           IN /\ step = "selectModel"
              /\ Len(availableModels) = Len(data)
              /\ \A i \in 1..Len(data) :
                    /\ availableModels[i].id = data[i].id
                    /\ availableModels[i].title = data[i].id
                    /\ availableModels[i].object = data[i].object
                    /\ availableModels[i].created = data[i].created
                    /\ availableModels[i].owned_by = data[i].owned_by
              /\ selectedCustomModel = IF Len(data) > 0
                                       THEN <<availableModels[1]>> ELSE <<>>

C8_Witness ==
    /\ Live /\ Completed /\ GotCatalog
    /\ Len(last.resp.data) = 2
    /\ last.resp.data[1] # last.resp.data[2]
    /\ Len(availableModels) = 2
    /\ selectedCustomModel = <<availableModels[1]>>

\* C9: setSelectedProvider with a value whose id and title match no catalog
\* entry leaves the selection unchanged; otherwise the selection becomes the
\* first catalog entry matching by id or by title.  After every step the
\* selection is none or an entry of the catalog.
C9_SelectionFromCatalog ==
    [][/\ last'.op = "select"
            => LET val == last'.val
                   hits == {i \in DOMAIN availableModels :
                               \/ availableModels[i].id = val.id
                               \/ availableModels[i].title = val.title}
               IN IF hits = {}
                  THEN selectedCustomModel' = selectedCustomModel
                  ELSE \E i \in hits :
                          /\ \A j \in hits : i <= j
                          /\ selectedCustomModel' = <<availableModels[i]>>
       /\ \/ selectedCustomModel' = <<>>
          \/ \E i \in DOMAIN availableModels' :
                availableModels'[i] = selectedCustomModel'[1]]_vars

C9_Witness ==
    /\ last.op = "select"
    /\ Len(availableModels) = 2
    /\ availableModels[1] # availableModels[2]
    /\ selectedCustomModel = <<availableModels[2]>>

\* C10: config/addModel and onDone are emitted only by an onSubmit in the
\* selectModel step with a selection; such a submit emits exactly one
\* config/addModel whose title and model are the selection's title and id, then
\* exactly one config/openProfile, then exactly one onDone, and changes neither
\* the session state nor the credential store; a submit with no selection
\* emits nothing.
C10_SubmitNotifiesInOrder ==
    [][/\ (\E i \in DOMAIN outbox' : outbox'[i].type \in {"config/addModel", "onDone"})
            => /\ last'.op = "submit"
               /\ step = "selectModel"
               /\ selectedCustomModel # <<>>
               /\ LET At(t) == {i \in DOMAIN outbox' : outbox'[i].type = t}
                  IN \E a, o, d \in DOMAIN outbox' :
                        /\ At("config/addModel") = {a}
                        /\ At("config/openProfile") = {o}
                        /\ At("onDone") = {d}
                        /\ a < o /\ o < d
                        /\ outbox'[a].model.title = selectedCustomModel[1].title
                        /\ outbox'[a].model.model = selectedCustomModel[1].id
               /\ UNCHANGED <<uiState, localStorage>>
       /\ (last'.op = "submit" /\ selectedCustomModel # <<>>) => outbox' # <<>>
       /\ (last'.op = "submit" /\ selectedCustomModel = <<>>)
            => (outbox' = <<>> /\ UNCHANGED <<uiState, localStorage>>)]_vars

CountOf(events, type) == Cardinality({i \in DOMAIN events : events[i].type = type})

C10_Witness ==
    /\ last.op = "submit"
    /\ CountOf(outbox, "onDone") = 1
    /\ CountOf(outbox, "config/addModel") = 1

\* C11: goBackToConnect leaves the session in the connect step with no error
\* and not connecting, with an empty catalog and no selection, the success
\* indicator hidden and no timer pending; when the store holds a parsable
\* credential pair the two inputs are set to its endpoint and key, otherwise
\* the inputs are as they were; the credential store is as it was.
C11_BackReturnsToIdle ==
    [][last'.op = "back"
        => /\ step' = "connect"
           /\ connectionError' = NoError
           /\ ~isConnecting'
           /\ availableModels' = <<>>
           /\ selectedCustomModel' = <<>>
           /\ ~showSuccessMessage'
           /\ timers' = {}
           /\ successTimeoutRef' = 0
           /\ localStorage' = localStorage
           /\ inflight' = inflight
           /\ IF localStorage # <<>> /\ localStorage[1].kind = "credentialsJson"
              THEN /\ formApiBase' = localStorage[1].apiBase
                   /\ formApiKey' = localStorage[1].apiKey
              ELSE UNCHANGED <<formApiBase, formApiKey>>]_vars

C11_Witness ==
    /\ last.op = "back"
    /\ step = "connect"
    /\ localStorage # <<>>
    /\ localStorage[1].kind = "credentialsJson"
    /\ formApiBase = localStorage[1].apiBase
    /\ formApiKey = localStorage[1].apiKey

C13_OneFetchOutstanding ==
    [][/\ Cardinality(inflight') <= 1
       /\ (isConnecting /\ last'.op \in {"connect", "connectDisabled"})
            => /\ inflight' = inflight
               /\ attempts' = attempts
               /\ UNCHANGED <<uiState, formApiBase, formApiKey, localStorage>>]_vars

C13_Witness ==
    /\ last.op = "connectDisabled"
    /\ isConnecting
    /\ Cardinality(inflight) = 1
    /\ formApiBase # <<>>
    /\ formApiKey # ""

\* the handlers a user can trigger
UserOps == {"editApiBase", "editApiKey", "clear", "connect", "connectDisabled",
            "submit", "openConfigFile", "select", "back"}

\* C14: while a discovery fetch is outstanding no user action changes the
\* session state or the credential store, and a fetch issued before the store
\* was emptied does not write credentials when it completes.
C14_ConnectingIsExclusive ==
    [][/\ (inflight # {} /\ last'.op \in UserOps)
            => UNCHANGED <<uiState, localStorage>>
       /\ (last'.op = "complete" /\ localStorage = <<>>
                /\ \E f \in inflight \ inflight' : f.origin = "stored")
            => localStorage' = <<>>]_vars

\* C15: a connect request made while the endpoint input or the key input is
\* empty issues no fetch and leaves step, isConnecting, catalog, selection,
\* error, the remaining session state, the inputs and the credential store
\* as they were; the "enter both" message of the handler's own validation is
\* never the session's error.
C15_RejectedConnectChangesNothing ==
    [][/\ (last'.op \in {"connect", "connectDisabled"}
                /\ (formApiBase = <<>> \/ formApiKey = ""))
            => /\ inflight' = inflight
               /\ attempts' = attempts
               /\ UNCHANGED <<uiState, formApiBase, formApiKey, localStorage,
                              timers, successTimeoutRef>>
       /\ connectionError' # MissingInputMsg]_vars

C15_Witness ==
    /\ last.op = "connectDisabled"
    /\ ~isConnecting
    /\ formApiBase # <<>>
    /\ formApiKey = ""
    /\ connectionError # NoError
    /\ localStorage # <<>>

\* The endpoint classification the claims C16 and C17 speak of: an endpoint is
\* of the local inference family iff it contains the local default port or the
\* family name.  The component has no such function.
LocalMarkers == {"11434", "ollama"}
IsLocalInference(apiBase) == \E i \in DOMAIN apiBase : apiBase[i] \in LocalMarkers

\* C16: a connect request with a non-empty endpoint of the local inference
\* family and an empty key issues a discovery fetch for that endpoint; with
\* any other non-empty endpoint and an empty key it issues none.
C16_LocalNeedsNoKey ==
    [][(last'.op \in {"connect", "connectDisabled"} /\ ~isConnecting
            /\ formApiBase # <<>> /\ formApiKey = "")
        => IF IsLocalInference(formApiBase)
           THEN \E f \in inflight' \ inflight :
                   f.apiBase = formApiBase /\ f.apiKey = ""
           ELSE inflight' = inflight]_vars

\* the endpoint without its trailing slash
StripSlash(apiBase) ==
    IF Len(apiBase) > 0 /\ apiBase[Len(apiBase)] = "/"
    THEN SubSeq(apiBase, 1, Len(apiBase) - 1)
    ELSE apiBase

\* C17: every issued discovery fetch goes to endpoint + /api/tags without an
\* Authorization header when the endpoint is of the local inference family,
\* and to endpoint + /models with "Bearer <key>" otherwise, a trailing slash
\* of the endpoint making no difference to the URL.
C17_DiscoveryUrlByFamily ==
    \A f \in inflight :
        IF IsLocalInference(f.apiBase)
        THEN /\ f.url = StripSlash(f.apiBase) \o <<"/", "api/tags">>
             /\ f.auth = <<>>
        ELSE /\ f.url = StripSlash(f.apiBase) \o <<"/", "models">>
             /\ f.auth = <<"Bearer", f.apiKey>>

\* C18: a discovery fetch is issued only by a user's connect request or by
\* the mount effect; the mount effect runs once, before any other step, and
\* issues at most one fetch, so after an auto-reconnect has ended (whatever its
\* outcome) every further fetch comes from a connect request.
C18_AutoReconnectOnce ==
    [][/\ attempts' # attempts
            => /\ attempts' = attempts + 1
               /\ \/ last'.op = "connect"
                  \/ last'.op = "mount" /\ attempts = 0
       /\ last'.op = "mount" => phase = "rendered"
       /\ phase' = "rendered" => phase = "rendered"
       /\ \A f \in inflight' : f.origin = "stored" => f.id = 1
       /\ \A f \in inflight' \ inflight :
             f.origin = "manual" <=> last'.op = "connect"]_vars

C18_Witness ==
    /\ Live /\ Completed /\ last.origin = "stored" /\ ~GotCatalog
    /\ autoReconnect
    /\ inflight = {}
    /\ attempts = 1
    /\ step = "connect"

\* C19: in a live session, after any completion of a discovery fetch
\* isConnecting is false and no fetch is outstanding; the session is then in
\* the selectModel step, or in the connect step with an error, where a
\* connect request with both inputs filled is accepted.  In a live session
\* isConnecting is true exactly while a fetch is outstanding, and it is false
\* before the mount effect has run.
C19_CompletionEndsConnecting ==
    /\ (Live /\ Completed)
          => /\ ~isConnecting
             /\ inflight = {}
             /\ \/ step = "selectModel" /\ GotCatalog
                \/ step = "connect" /\ connectionError # NoError
             /\ (step = "connect" /\ formApiBase # <<>> /\ formApiKey # "")
                   => ~isConnectDisabled
    /\ Live => (isConnecting <=> inflight # {})
    /\ phase = "rendered" => (~isConnecting /\ inflight = {})

C19_Witness ==
    /\ Live /\ Completed /\ ~GotCatalog
    /\ ~isConnecting
    /\ step = "connect"
    /\ formApiBase # <<>> /\ formApiKey # ""
    /\ ~isConnectDisabled

\* C20: started on a store that is empty or well-formed, the store is after
\* every step either empty or a pair with a non-empty endpoint and a non-empty
\* key; a step that changes the store either removes the entry or is the
\* completion of a fetch writing that fetch's endpoint and key together, in
\* one setItem call.
C20_StoreHoldsWholePairs ==
    [][/\ \/ localStorage' = <<>>
          \/ /\ localStorage'[1].kind = "credentialsJson"
             /\ localStorage'[1].apiBase # <<>>
             /\ localStorage'[1].apiKey # ""
       /\ localStorage' # localStorage
            => \/ localStorage' = <<>> /\ last'.op \in {"clear", "complete"}
               \/ /\ last'.op = "complete" /\ last'.writes = 1
                  /\ \E f \in inflight \ inflight' :
                        localStorage' = <<JsonStringify(f.apiBase, f.apiKey)>>]_vars

C20_Witness ==
    /\ Completed /\ last.writes = 1
    /\ localStorage # <<>>
    /\ localStorage[1].apiBase # <<>>
    /\ localStorage[1].apiKey # ""

\* C23: in every reachable state, step = connect implies an empty catalog, no
\* selection and a hidden success indicator; step = selectModel implies no
\* connection error; and a connection error implies step = connect.
C23_FlagsConsistent ==
    /\ step \in {"connect", "selectModel"}
    /\ step = "connect"
          => /\ availableModels = <<>>
             /\ selectedCustomModel = <<>>
             /\ ~showSuccessMessage
    /\ step = "selectModel" => connectionError = NoError
    /\ connectionError # NoError => step = "connect"

C23_Witness ==
    /\ Live /\ Completed /\ GotCatalog
    /\ ~autoReconnect
    /\ attempts = 2
    /\ step = "selectModel"
    /\ Len(availableModels) > 0
    /\ showSuccessMessage

\* C22: whenever onSubmit emits config/addModel, the apiBase and apiKey of the
\* emitted model are the endpoint and key that were sent in the discovery
\* fetch that produced the current catalog.
C22_SubmitsValidatedCredentials ==
    \A i \in DOMAIN outbox :
        outbox[i].type = "config/addModel"
            => /\ validated # <<>>
               /\ outbox[i].model.apiBase = validated[1].apiBase
               /\ outbox[i].model.apiKey = validated[1].apiKey

\* C21: for the credential store helpers, with any text stored before:
\* after a clear whose removeItem did not throw, load yields null; after a
\* save of c whose setItem did not throw, load yields c; clear on an absent
\* entry leaves it absent; a load leaves the storage alone and yields null
\* when getItem throws or the stored text does not parse; a save or clear
\* whose storage call throws leaves the storage as it was; and no call lets
\* an exception out.
C21_StoreAlgebra ==
    [][LET loaded == getStoredCredentialsCall(localStorage', FALSE).value
       IN /\ (last'.op = "clear" /\ ~last'.throws) => loaded = <<>>
          /\ (last'.op = "save" /\ ~last'.throws) => loaded = last'.arg
          /\ (last'.op = "clear" /\ localStorage = <<>>) => localStorage' = <<>>
          /\ last'.op = "load"
                => /\ localStorage' = localStorage
                   /\ (last'.throws \/ localStorage = <<>>
                            \/ localStorage = <<Garbage>>)
                         => last'.out.value = <<>>
          /\ (last'.op \in {"save", "clear"} /\ last'.throws)
                => localStorage' = localStorage
          /\ ~last'.out.raised]_vars

C21_Witness ==
    /\ last.op = "load"
    /\ last.throws
    /\ last.out.value = <<>>
    /\ localStorage # <<>>
    /\ localStorage # <<Garbage>>

====
